---- MODULE Spec2Model ----
(***************************************************************************)
(* Model of duplicate_cleaner.py: main -> Scanner.scan ->                  *)
(* DuplicateCleaner.find_duplicates_by_hash (partial pass, full pass on a  *)
(* thread pool) -> DuplicateCleaner.process_duplicates (report, quarantine *)
(* or delete every non-keeper of every duplicate group).                   *)
(*                                                                         *)
(* Paths are Windows paths (the program's stated platform), written as the *)
(* sequence of their components with the drive first: D:\w\a.txt is        *)
(* <<"D:", "w", "a.txt">>.  File contents are short byte sequences.        *)
(***************************************************************************)
EXTENDS Integers, Sequences, FiniteSets, TLC

\* Python's None where a hash or an error message is expected (a record, so that
\* it compares unequal to every digest and every message)
None == [none |-> TRUE]
\* no file at this path: a marker that is no byte string
Absent == <<-1>>

\* ------------------------------------------------------------------ bounds
\* Hasher.CHUNK_SIZE (65536 in the source), scaled down to the model's files
CHUNK_SIZE == 1
\* number of worker threads the --workers argument is drawn from (1..MaxWorkers)
MaxWorkers == 2
\* how many hash computations of one run may fail (return None)
MaxHashFailures == 1
\* how many os.remove / shutil.move calls of one run may fail
MaxMutationFailures == 1
\* how many files of one scan may fail stat() or resolve()
MaxStatFailures == 1

\* ------------------------------------------------------------ generic helpers
Min(a, b) == IF a <= b THEN a ELSE b

Range(s) == {s[i] : i \in 1..Len(s)}

IsPrefix(p, q) == Len(p) <= Len(q) /\ SubSeq(q, 1, Len(p)) = p

RECURSIVE SeqSum(_)
SeqSum(s) == IF s = <<>> THEN 0 ELSE Head(s) + SeqSum(Tail(s))

RECURSIVE SelectSeqOf(_, _)
\* the members of sequence s that are in set S, in the order of s
SelectSeqOf(s, S) ==
    IF s = <<>> THEN <<>>
    ELSE (IF Head(s) \in S THEN <<Head(s)>> ELSE <<>>) \o SelectSeqOf(Tail(s), S)

\* A Python dict (insertion-ordered) from keys to lists is a sequence of
\* <<key, list>> pairs; DictAppend is d[k].append(v) on a defaultdict(list).
DictKeys(d) == {d[i][1] : i \in 1..Len(d)}

DictAppend(d, k, v) ==
    IF k \in DictKeys(d)
    THEN [i \in 1..Len(d) |-> IF d[i][1] = k THEN <<k, Append(d[i][2], v)>> ELSE d[i]]
    ELSE Append(d, <<k, <<v>>>>)

\* a filter that keeps the lists of one member too
DictKeepAll(d) == d

RECURSIVE DictFilterMulti(_)
\* {k: v for k, v in d.items() if len(v) > 1}
DictFilterMulti(d) ==
    IF d = <<>> THEN <<>>
    ELSE (IF Len(Head(d)[2]) > 1 THEN <<Head(d)>> ELSE <<>>) \o DictFilterMulti(Tail(d))

RECURSIVE DictValuesFlat(_)
\* [f for group in d.values() for f in group]
DictValuesFlat(d) ==
    IF d = <<>> THEN <<>> ELSE Head(d)[2] \o DictValuesFlat(Tail(d))

\* ------------------------------------------------------------------ the tree
Drive == "D:"
RootPath == <<Drive>>                                  \* --root D:\
QuarantineDir == RootPath \o <<"_DUPLICATE_QUARANTINE">>
DefaultLogDir == RootPath \o <<"_DUPLICATE_LOGS">>
ExternalLogDir == <<"E:", "logs">>                     \* --log-dir E:\logs

F1 == <<Drive, "Documents", "a.txt">>
F2 == <<Drive, "Documents", "b.txt">>
F3 == <<Drive, "w", "a.txt">>
F4 == <<Drive, "tmp", "c.LOG">>
\* left in the quarantine directory by an earlier quarantine run of D:\w\a.txt
F5 == QuarantineDir \o <<"w", "a.txt">>

\* the walk order of os.walk over the tree (topdown, one directory at a time)
WalkOrder == <<F1, F2, F3, F4, F5>>
Paths == Range(WalkOrder)

\* QuarantineManager.get_quarantine_path: the path relative to the drive root,
\* re-rooted under the quarantine directory.  A path without a drive is not
\* relative to "\" (relative_to raises ValueError) and takes the fallback, which
\* replaces ":" and has nothing to replace in a drive-less path.  A path with
\* a drive and no root (D:w\a.txt, written <<"D:.", "w", "a.txt">>) is not
\* relative to "D:\" either, and the fallback turns "D:w" into "D_drivew".
HasDrive(p) == p # <<>> /\ Head(p) \in {"C:", "D:", "E:"}

\* a path that names a drive but does not start at its root
DriveRelative(p) == p # <<>> /\ Head(p) \in {"C:.", "D:.", "E:."}

\* Path(str(original).replace(":", "_drive")) of a drive-relative path
Sanitized(p) ==
    LET drive == CASE Head(p) = "C:." -> "C_drive"
                   [] Head(p) = "D:." -> "D_drive"
                   [] OTHER -> "E_drive"
    IN  IF Len(p) = 1 THEN <<drive>>
        ELSE <<drive \o p[2]>> \o SubSeq(p, 3, Len(p))

\* a quarantine that keeps the file name only
get_quarantine_path_flat(quarantine_dir, original) ==
    quarantine_dir \o <<original[Len(original)]>>

\* a quarantine that leaves out the directory directly below the drive
get_quarantine_path_shallow(quarantine_dir, original) ==
    IF HasDrive(original) /\ Len(original) > 2
    THEN quarantine_dir \o Tail(Tail(original))
    ELSE quarantine_dir \o <<original[Len(original)]>>

get_quarantine_path(quarantine_dir, original) ==
    IF HasDrive(original) THEN quarantine_dir \o Tail(original)
    ELSE IF DriveRelative(original) THEN quarantine_dir \o Sanitized(original)
    ELSE quarantine_dir \o original

QuarantinePaths == {get_quarantine_path(QuarantineDir, p) : p \in Paths}
AllPaths == Paths \union QuarantinePaths

\* ------------------------------------------------------------ file contents
\* contents of five bytes: CX and CY differ in a byte the partial fingerprint
\* does not sample, CZ differs from both in the first byte; CS and CT are shorter.
CX == <<1, 1, 1, 1, 1>>
CY == <<1, 0, 1, 1, 1>>
CZ == <<0, 1, 1, 1, 1>>
CS == <<1>>
\* two bytes, of which the partial fingerprint reads the first only, as it does of CS
CT == <<1, 1>>
Contents == {CX, CY, CZ, CS, CT}

\* os.path.getsize / stat().st_size
SizeOf(content) == Len(content)

\* f.seek(pos); f.read(n): at most n bytes from offset pos (0-based)
ReadAt(content, pos, n) == SubSeq(content, pos + 1, Min(pos + n, Len(content)))

\* hashlib.sha256(...).hexdigest(): collision-free, never empty, so a digest is
\* modelled by the byte string that was fed to it
Sha256(bytes) == [sha256 |-> bytes]

\* Hasher.compute_partial_hash on a readable file
PartialDigest(content) ==
    LET file_size == SizeOf(content)
        first == ReadAt(content, 0, CHUNK_SIZE)
        middle == IF file_size > 2 * CHUNK_SIZE
                  THEN ReadAt(content, file_size \div 2, CHUNK_SIZE) ELSE <<>>
        last == IF file_size > 3 * CHUNK_SIZE
                THEN ReadAt(content, file_size - CHUNK_SIZE, CHUNK_SIZE) ELSE <<>>
    IN  Sha256(first \o middle \o last)

\* Hasher.compute_full_hash on a readable file
FullDigest(content) == Sha256(content)

\* Hasher.compute_partial_hash / compute_full_hash: None when the file cannot
\* be read (it is gone, or the read raises OSError: io_error)
compute_partial_hash(content, io_error) ==
    IF content = Absent \/ io_error THEN None ELSE PartialDigest(content)

compute_full_hash(content, io_error) ==
    IF content = Absent \/ io_error THEN None ELSE FullDigest(content)

\* stat().st_ctime / st_mtime of the files of the tree
Ctime(p) == CASE p = F1 -> 2 [] p = F2 -> 2 [] p = F3 -> 1 [] p = F4 -> 3 [] OTHER -> 1
Mtime(p) == CASE p = F1 -> 2 [] p = F2 -> 2 [] p = F3 -> 3 [] p = F4 -> 1 [] OTHER -> 1

\* ------------------------------------------------------------ path helpers
\* str.lower() on the names of the tree
Lower(s) ==
    CASE s = "Documents" -> "documents"
      [] s = "c.LOG" -> "c.log"
      [] s = ".LOG" -> ".log"
      [] s = "_DUPLICATE_QUARANTINE" -> "_duplicate_quarantine"
      [] s = "_DUPLICATE_LOGS" -> "_duplicate_logs"
      [] s = "D:" -> "d:"
      [] s = "*.LOG" -> "*.log"
      [] s = ".TXT" -> ".txt"
      [] s = "Pipfile" -> "pipfile"
      [] s = "Cargo.toml" -> "cargo.toml"
      [] s = "Makefile" -> "makefile"
      [] s = "CMakeLists.txt" -> "cmakelists.txt"
      [] OTHER -> s

\* Path.suffix of a final component
Suffix(name) ==
    CASE name \in {"a.txt", "b.txt"} -> ".txt"
      [] name = "c.LOG" -> ".LOG"
      [] name = "c.log" -> ".log"
      [] OTHER -> ""

Name(p) == p[Len(p)]
Parent(p) == SubSeq(p, 1, Len(p) - 1)

\* len(str(path)): the drive, then a separator and a name per component
StrLen(p) == Len(p[1]) + SeqSum([i \in 1..(Len(p) - 1) |-> 1 + Len(p[i + 1])])

\* ------------------------------------------------------------ DecisionEngine
PROJECT_INDICATORS ==
    {"package.json", "package-lock.json", "yarn.lock", "pom.xml",
     "build.gradle", "settings.gradle", "angular.json", "tsconfig.json",
     "pyproject.toml", "setup.py", "requirements.txt", "Pipfile",
     "Cargo.toml", "go.mod", "composer.json", ".gitignore", ".git",
     "Makefile", "CMakeLists.txt", ".sln", ".csproj", ".vbproj"}

PROJECT_FOLDERS ==
    {"src", "source", "lib", "app", "components", "modules",
     "node_modules", ".git", ".svn", "dist", "build", "target",
     "bin", "obj", "__pycache__", "venv", ".env"}

USER_CONTENT_KEYWORDS ==
    {"documents", "photos", "pictures", "videos", "music", "downloads",
     "desktop", "onedrive", "dropbox", "google drive"}

IGNORE_KEYWORDS == {"temp", "tmp", "cache", "recycle", "trash", "$recycle.bin"}

\* the keywords that occur in a lowercased name of the tree (keyword in name)
KeywordsIn(lname) ==
    CASE lname = "documents" -> {"documents"}
      [] lname = "tmp" -> {"tmp"}
      [] OTHER -> {}

\* keyword in str(parent).lower(): no keyword holds a separator, so it occurs
\* in the path exactly when it occurs in one of the components
KeywordInPath(keyword, dir) ==
    \E i \in 1..Len(dir) : keyword \in KeywordsIn(Lower(dir[i]))

\* list(parent.iterdir()) split by is_file() / is_dir(): the names of the files
\* in dir and of the directories in dir that hold a file of the tree; ok is
\* FALSE when iterdir() raises
ListingFailed == [ok |-> FALSE, files |-> {}, dirs |-> {}]

ListDir(files, dir) ==
    [ok |-> TRUE,
     files |-> {Name(q) : q \in {r \in DOMAIN files : files[r] # Absent /\ Parent(r) = dir}},
     dirs |-> {q[Len(dir) + 1] :
                 q \in {r \in DOMAIN files : files[r] # Absent /\ IsPrefix(dir, r)
                                              /\ Len(r) > Len(dir) + 1}}]

\* what compute_folder_score gets from parent.iterdir()
Listing(files, dir, failing) ==
    IF dir \in failing THEN ListingFailed ELSE ListDir(files, dir)

\* a score with one bonus of 30 for the project folders, however many there are
compute_folder_score_one_bonus(filepath, listing) ==
    LET parent == Parent(filepath)
        sibling_names == {Lower(n) : n \in listing.files}
        sibling_dirs == {Lower(n) : n \in listing.dirs}
        indicators == {ind \in PROJECT_INDICATORS : Lower(ind) \in sibling_names}
        folders == {f \in PROJECT_FOLDERS : Lower(f) \in sibling_dirs}
        sibling_bonus ==
            IF ~listing.ok THEN 0
            ELSE 50 * Cardinality(indicators) + (IF folders # {} THEN 30 ELSE 0)
                 + (IF Cardinality(sibling_names) > 10 THEN 20 ELSE 0)
        user == {k \in USER_CONTENT_KEYWORDS : KeywordInPath(k, parent)}
        junk == {k \in IGNORE_KEYWORDS : KeywordInPath(k, parent)}
    IN  sibling_bonus + 40 * Cardinality(user) - 100 * Cardinality(junk)
        - 2 * Len(filepath)

\* DecisionEngine.compute_folder_score
compute_folder_score(filepath, listing) ==
    LET parent == Parent(filepath)
        sibling_names == {Lower(n) : n \in listing.files}
        sibling_dirs == {Lower(n) : n \in listing.dirs}
        indicators == {ind \in PROJECT_INDICATORS : Lower(ind) \in sibling_names}
        folders == {f \in PROJECT_FOLDERS : Lower(f) \in sibling_dirs}
        sibling_bonus ==
            IF ~listing.ok THEN 0
            ELSE 50 * Cardinality(indicators) + 30 * Cardinality(folders)
                 + (IF Cardinality(sibling_names) > 10 THEN 20 ELSE 0)
        user == {k \in USER_CONTENT_KEYWORDS : KeywordInPath(k, parent)}
        junk == {k \in IGNORE_KEYWORDS : KeywordInPath(k, parent)}
    IN  sibling_bonus + 40 * Cardinality(user) - 100 * Cardinality(junk)
        - 2 * Len(filepath)

\* DecisionEngine.get_earliest_time
get_earliest_time(f) == Min(f.ctime, f.mtime)

\* a sort key that ranks the lower folder score first
SortKeyAscending(f, score) == <<score[f.path], get_earliest_time(f), StrLen(f.path)>>

\* the sort key of choose_file_to_keep; score is the memoized folder_score
SortKey(f, score) == <<0 - score[f.path], get_earliest_time(f), StrLen(f.path)>>

\* tuple comparison a < b of two sort keys
KeyLess(a, b) ==
    \/ a[1] < b[1]
    \/ a[1] = b[1] /\ a[2] < b[2]
    \/ a[1] = b[1] /\ a[2] = b[2] /\ a[3] < b[3]

\* DecisionEngine.choose_file_to_keep once the scores are filled in: sorted() is
\* stable, so sorted_files[0] is the first file of the list with a minimal key
choose_file_to_keep(files, score) ==
    IF Len(files) = 1 THEN files[1]
    ELSE LET best == {i \in 1..Len(files) :
                        \A j \in 1..Len(files) :
                           ~KeyLess(SortKey(files[j], score), SortKey(files[i], score))}
             first == CHOOSE i \in best : \A j \in best : i <= j
         IN  files[first]

\* a reason that looks at the folder scores only
build_reason_score_only(keeper, removed, score) ==
    IF score[keeper.path] > score[removed.path]
    THEN <<<<"better folder score", score[keeper.path], score[removed.path]>>>>
    ELSE <<"default choice">>

\* DuplicateCleaner._build_reason
build_reason(keeper, removed, score) ==
    LET r1 == IF score[keeper.path] > score[removed.path]
              THEN <<<<"better folder score", score[keeper.path], score[removed.path]>>>>
              ELSE <<>>
        r2 == IF get_earliest_time(keeper) < get_earliest_time(removed)
              THEN <<"older file">> ELSE <<>>
        r3 == IF StrLen(keeper.path) < StrLen(removed.path)
              THEN <<"shorter path">> ELSE <<>>
        reasons == r1 \o r2 \o r3
    IN  IF reasons # <<>> THEN reasons ELSE <<"default choice">>

\* ------------------------------------------------------------ symbolic links
\* a symbolic link is a tree entry <<-2, k>>: a link to LinkTargets[k], a file
\* or a directory
DirLink == <<Drive, "lnk">>
\* D:\w\a.txt as it is seen through the link D:\lnk -> D:\w
Via == DirLink \o <<"a.txt">>
LinkTargets == <<F1, F4, Parent(F3)>>
SymlinkTo(target) == <<-2, CHOOSE k \in 1..Len(LinkTargets) : LinkTargets[k] = target>>

\* os.path.islink(path)
IsSymlink(files, path) ==
    /\ path \in DOMAIN files
    /\ Len(files[path]) = 2 /\ files[path][1] = -2

\* the path a link leads to
Readlink(files, path) == LinkTargets[files[path][2]]

\* what open() and stat() reach at path: they follow a link to a file; Absent
\* when nothing is there (the link dangles)
Target(files, path) ==
    IF ~IsSymlink(files, path) THEN files[path]
    ELSE IF Readlink(files, path) \in DOMAIN files /\ ~IsSymlink(files, Readlink(files, path))
         THEN files[Readlink(files, path)]
         ELSE Absent

\* path.resolve(): the path itself, or where the link leads; Unresolved when
\* resolve() raises
Unresolved == <<>>
Resolve(files, path, resolve_fail) ==
    IF path \in resolve_fail THEN Unresolved
    ELSE IF IsSymlink(files, path) THEN Readlink(files, path)
    ELSE path

\* ------------------------------------------------------------------ Scanner
\* one --exclude-glob pattern against a path: Path(str(path).lower()).match(
\* pattern.lower()).  A pattern of one component is matched against the last
\* component of the path: "*.ext" matches a name with that suffix, any other
\* pattern of the model is a literal name.
GlobMatch(path, pattern) ==
    LET lname == Lower(Name(path))
        lpat == Lower(pattern)
    IN  CASE lpat = "*.log" -> Suffix(lname) = ".log"
          [] lpat = "*.txt" -> Suffix(lname) = ".txt"
          [] OTHER -> lname = lpat

\* a filter that compares the extension as it is written
should_skip_path_as_written(a, path, resolved) ==
    \/ resolved = Unresolved
    \/ \E i \in 1..Len(a.exclude) : IsPrefix(a.exclude[i], resolved)
    \/ \E i \in 1..Len(a.exclude_glob) : GlobMatch(path, a.exclude_glob[i])
    \/ Suffix(Name(path)) \in {Lower(e) : e \in Range(a.skip_ext)}

\* Scanner.should_skip_path; resolved: what path.resolve() returns
should_skip_path(a, path, resolved) ==
    \/ resolved = Unresolved
    \/ \E i \in 1..Len(a.exclude) : IsPrefix(a.exclude[i], resolved)
    \/ \E i \in 1..Len(a.exclude_glob) : GlobMatch(path, a.exclude_glob[i])
    \/ Lower(Suffix(Name(path))) \in {Lower(e) : e \in Range(a.skip_ext)}

\* FileInfo(path, size, ctime, mtime); the mutable fields hash and folder_score
\* are the variables hash_of and folder_score (unset = None: not in the domain)
FileInfo(path, content) ==
    [path |-> path, size |-> SizeOf(content), ctime |-> Ctime(path), mtime |-> Mtime(path)]

\* the directories strictly between the root and a path, which os.walk has to
\* descend into to list it
DirsAbove(path) == {SubSeq(path, 1, n) : n \in (Len(RootPath) + 1)..(Len(path) - 1)}

\* the loop body of Scanner.scan for one file: is a FileInfo recorded for it.
\* os.walk(followlinks=False) lists a link to a directory among dirs and does
\* not descend into it, and lists a link to a file among files.  A directory
\* that should_skip_path rejects is pruned from the walk (dirs[:]);
\* stat_fail and resolve_fail are the paths whose stat() / resolve() raises;
\* filepath.stat() follows a link and raises when it dangles.
ScanRecords(a, files, path, stat_fail, resolve_fail) ==
    /\ files[path] # Absent
    /\ \A d \in DirsAbove(path) :
          /\ ~IsSymlink(files, d)
          /\ ~should_skip_path(a, d, Resolve(files, d, resolve_fail))
    /\ ~should_skip_path(a, path, Resolve(files, path, resolve_fail))
    /\ path \notin stat_fail
    /\ Target(files, path) # Absent
    /\ ~(SizeOf(Target(files, path)) < a.min_size \/ SizeOf(Target(files, path)) > a.max_size)

\* the order in which os.walk with followlinks=True would list the files of a
\* tree: those of WalkOrder, and the file behind D:\lnk where the tree has it
WalkOf(files) == SelectSeqOf(<<F1, F2, Via, F3, F4, F5>>, DOMAIN files)

RECURSIVE ScanWalk(_, _, _, _, _, _)
\* size_groups after walking the paths of walk in order
ScanWalk(a, files, walk, stat_fail, resolve_fail, groups) ==
    IF walk = <<>> THEN groups
    ELSE LET path == Head(walk)
             next == IF ScanRecords(a, files, path, stat_fail, resolve_fail)
                     THEN DictAppend(groups, SizeOf(Target(files, path)),
                                     FileInfo(path, Target(files, path)))
                     ELSE groups
         IN  ScanWalk(a, files, Tail(walk), stat_fail, resolve_fail, next)

\* Scanner.scan: the size groups of the walk ...
ScanSizeGroups(a, files, stat_fail, resolve_fail) ==
    ScanWalk(a, files, WalkOf(files), stat_fail, resolve_fail, <<>>)

\* a scan that returns every size group
scan_every_size(a, files, stat_fail, resolve_fail) ==
    ScanSizeGroups(a, files, stat_fail, resolve_fail)

\* ... and its result, without the sizes only one file has
scan(a, files, stat_fail, resolve_fail) ==
    DictFilterMulti(ScanSizeGroups(a, files, stat_fail, resolve_fail))

\* -------------------------------------------------------------------- state
VARIABLES
    args,             \* the parsed command line (argparse namespace)
    entry,            \* "main": the program is started through main();
                      \* "run": a caller builds DuplicateCleaner(args) and calls run()
    pc,               \* where the run is
    exit_code,        \* the exit status of the process; -1 while it runs
    fs,               \* the files: path -> content, or Absent
    dirs,             \* the directories among root, log and quarantine directory that exist
    log_files,        \* number of log files setup_logging has created
    fs0, dirs0,       \* fs and dirs when the program started
    stat_fail,        \* the paths whose stat() raises during the scan
    listdir_fail,     \* the directories whose iterdir() raises during the scoring
    resolve_fail,     \* the paths whose resolve() raises during the scan
    scan_groups,      \* size_groups of Scanner.scan when the walk ends
    size_groups,      \* what Scanner.scan returned
    submitted,        \* the hashing tasks of the current pass, in submission order
    result,           \* finished task -> what it returned
    collected,        \* the tasks whose result as_completed has handed to the main thread
    partial_groups, hash_groups, duplicates,
    hash_of,          \* FileInfo.hash, by path
    folder_score,     \* FileInfo.folder_score, by path
    actions,          \* Reporter.actions
    moves,            \* QuarantineManager.moves
    returned,         \* what the last call of move_to_quarantine returned ("none": no call yet)
    group_index, file_index, keeper,   \* the loops of process_duplicates
    hash_failures, mutation_failures,  \* failures injected so far
    partial_submitted, full_submitted, \* how often each path was submitted, per pass
    hash_failed,      \* the paths one of whose hash computations returned None
    reports_written, restore_script_written

fsvars == <<fs, dirs, log_files>>
ghostvars == <<fs0, dirs0>>
scanvars == <<stat_fail, resolve_fail, listdir_fail, scan_groups, size_groups>>
taskvars == <<submitted, result, collected, partial_submitted, full_submitted, hash_failures,
              hash_failed>>
hashvars == <<partial_groups, hash_groups, duplicates, hash_of>>
procvars == <<folder_score, actions, moves, returned, group_index, file_index, keeper,
              mutation_failures, reports_written, restore_script_written>>
vars == <<args, entry, pc, exit_code, fsvars, ghostvars, scanvars, taskvars, hashvars, procvars>>

Modes == {"report", "quarantine", "delete"}

\* parse_args: "C:\Windows" and the other system folders are appended to
\* --exclude when they exist
SystemExcludes == <<<<"C:", "Windows">>, <<"C:", "Program Files">>>>

\* the filter arguments of a run: the argparse defaults (the default max_size,
\* 10**12, is beyond every file of the tree, as 1000 is)
DefaultFilter ==
    [exclude |-> SystemExcludes, exclude_glob |-> <<>>, skip_ext |-> <<>>,
     min_size |-> 0, max_size |-> 1000]

ArgsOf(mode, apply, confirm, workers, log_dir, filter) ==
    [mode |-> mode, apply |-> apply, confirm |-> confirm, workers |-> workers,
     log_dir |-> log_dir, exclude |-> filter.exclude,
     exclude_glob |-> filter.exclude_glob, skip_ext |-> filter.skip_ext,
     min_size |-> filter.min_size, max_size |-> filter.max_size]

\* the command lines of the runs: every mode with every value of --apply and
\* --confirm, and the default filter
AllArgs ==
    {ArgsOf(m, ap, co, w, ld, DefaultFilter) :
        m \in Modes, ap \in BOOLEAN, co \in BOOLEAN, w \in 1..MaxWorkers,
        ld \in {DefaultLogDir, ExternalLogDir}}

\* a tree: what is at F1..F5; nothing is in the quarantine directory but F5
Tree(c1, c2, c3, c4, c5) ==
    [p \in AllPaths |->
        CASE p = F1 -> c1 [] p = F2 -> c2 [] p = F3 -> c3 [] p = F4 -> c4 [] p = F5 -> c5
          [] OTHER -> Absent]

EmptyTree == Tree(Absent, Absent, Absent, Absent, Absent)

\* The trees a run starts from:
\*  - three copies of one file, two of them in one directory with equal times;
\*  - two pairs of copies, the pairs of different sizes but with one partial
\*    fingerprint, one copy being a file that an earlier quarantine run left at
\*    the place D:\w\a.txt is quarantined to;
\*  - two copies and a file of their size that differs from them only in a byte
\*    the partial fingerprint does not read;
\*  - no copies: three files of one size, two of them with one fingerprint, and
\*    a file alone in its size.
Trees ==
    {Tree(CX, CX, CX, Absent, Absent),
     Tree(CT, Absent, CT, CS, CS),
     Tree(CX, CX, CY, Absent, Absent),
     Tree(CX, CZ, CY, CS, Absent)}

\* the directories (of those the model tracks) that exist around a tree
DirsOf(tree) == {RootPath} \union (IF tree[F5] # Absent THEN {QuarantineDir} ELSE {})

EmptyFn == [x \in {} |-> 0]

\* what no phase of the run has touched yet
InitIdle ==
    /\ exit_code = -1
    /\ log_files = 0
    /\ fs0 = fs
    /\ dirs0 = dirs
    /\ scan_groups = <<>>
    /\ size_groups = <<>>
    /\ submitted = <<>>
    /\ result = EmptyFn
    /\ collected = {}
    /\ partial_groups = <<>>
    /\ hash_groups = <<>>
    /\ hash_of = EmptyFn
    /\ actions = <<>>
    /\ moves = <<>>
    /\ returned = "none"
    /\ file_index = 0
    /\ keeper = None
    /\ hash_failures = 0
    /\ mutation_failures = 0
    /\ partial_submitted = [p \in Paths |-> 0]
    /\ full_submitted = [p \in Paths |-> 0]
    /\ hash_failed = {}
    /\ reports_written = FALSE
    /\ restore_script_written = FALSE

InitRest ==
    /\ InitIdle
    /\ duplicates = <<>>
    /\ folder_score = EmptyFn
    /\ group_index = 0

\* The root exists and holds one of the trees, or it does not exist at all.
\* The quarantine directory exists already when an earlier run left a file there.
Init ==
    /\ args \in AllArgs
    /\ entry \in {"main", "run"}
    /\ entry = "run" => args.log_dir = DefaultLogDir
    /\ \/ /\ fs \in Trees
          /\ args.log_dir = DefaultLogDir
          /\ dirs = DirsOf(fs)
       \/ /\ fs = EmptyTree
          /\ dirs \in {{}, {RootPath}}
    /\ stat_fail = {}
    /\ listdir_fail = {}
    /\ resolve_fail = {}
    /\ InitRest
    /\ pc = "start"

\* ---------------------------------------------------------------------- main
\* Path(log_dir).mkdir(parents=True, exist_ok=True): the directory and every
\* missing directory above it, the root among them when log_dir is under it
MkdirParents(existing, dir) ==
    existing \union {d \in {RootPath, QuarantineDir, DefaultLogDir, ExternalLogDir} :
                       IsPrefix(d, dir)}

\* the safety check of main for delete mode
DeleteGate(a) == a.mode = "delete" /\ a.apply /\ ~a.confirm

\* main(): parse_args, setup_logging (creates the log directory and a log
\* file), the root check, the delete-mode check, DuplicateCleaner(args)
Main ==
    /\ pc = "start" /\ entry = "main"
    /\ dirs' = MkdirParents(dirs, args.log_dir)
    /\ log_files' = log_files + 1
    /\ IF RootPath \notin dirs' \/ DeleteGate(args)
       THEN pc' = "exit" /\ exit_code' = 1
       ELSE pc' = "scan" /\ exit_code' = exit_code
    /\ UNCHANGED <<args, entry, fs, ghostvars, scanvars, taskvars, hashvars, procvars>>

\* a caller that does not go through main: DuplicateCleaner(args) (Reporter
\* creates the log directory), then run()
CallRun ==
    /\ pc = "start" /\ entry = "run"
    /\ dirs' = MkdirParents(dirs, args.log_dir)
    /\ pc' = "scan"
    /\ UNCHANGED <<args, entry, exit_code, fs, log_files, ghostvars, scanvars, taskvars,
                   hashvars, procvars>>

\* run(), phase 1: self.scanner.scan(); returns when there are no size groups
Scan ==
    /\ pc = "scan"
    /\ scan_groups' = ScanSizeGroups(args, fs, stat_fail, resolve_fail)
    /\ size_groups' = scan(args, fs, stat_fail, resolve_fail)
    /\ IF size_groups' = <<>>
       THEN pc' = "done" /\ exit_code' = 0
       ELSE pc' = "submit_partial" /\ exit_code' = exit_code
    /\ UNCHANGED <<args, entry, fsvars, ghostvars, stat_fail, resolve_fail, listdir_fail,
                   taskvars,
                   hashvars, procvars>>

\* ------------------------------------------------ find_duplicates_by_hash
\* the tasks the pool's threads are running: the pool starts tasks in
\* submission order, as many at a time as it has workers
Unfinished == SelectSeqOf(submitted, Range(submitted) \ DOMAIN result)
InFlight == {Unfinished[i] : i \in 1..Min(args.workers, Len(Unfinished))}

\* the submission counts after the tasks of sequence tasks were submitted
CountSubmitted(count, tasks) ==
    [p \in Paths |-> count[p] + Cardinality({i \in 1..Len(tasks) : tasks[i] = p})]

\* a partial pass that submits every file twice
SubmitPartialTwice ==
    /\ pc = "submit_partial"
    /\ submitted' = [i \in 1..Len(DictValuesFlat(size_groups)) |->
                        DictValuesFlat(size_groups)[i].path]
                    \o [i \in 1..Len(DictValuesFlat(size_groups)) |->
                        DictValuesFlat(size_groups)[i].path]
    /\ partial_submitted' = CountSubmitted(partial_submitted, submitted')
    /\ result' = EmptyFn
    /\ collected' = {}
    /\ pc' = "partial"
    /\ UNCHANGED <<args, entry, exit_code, fsvars, ghostvars, scanvars, full_submitted,
                   hash_failures, hash_failed, hashvars, procvars>>

\* executor.submit(Hasher.compute_partial_hash, ...) for every file of every
\* size group
SubmitPartial ==
    /\ pc = "submit_partial"
    /\ submitted' = [i \in 1..Len(DictValuesFlat(size_groups)) |->
                        DictValuesFlat(size_groups)[i].path]
    /\ partial_submitted' = CountSubmitted(partial_submitted, submitted')
    /\ result' = EmptyFn
    /\ collected' = {}
    /\ pc' = "partial"
    /\ UNCHANGED <<args, entry, exit_code, fsvars, ghostvars, scanvars, full_submitted,
                   hash_failures, hash_failed, hashvars, procvars>>

\* where the main thread is after KeyboardInterrupt was raised in the block of
\* "with ThreadPoolExecutor(...) as executor": in executor.__exit__, which is
\* shutdown(wait=True), during the partial or the full pass
InterruptedPcs == {"interrupted_partial", "interrupted_full"}

\* whether one more hash computation may fail
IoErrors == IF hash_failures < MaxHashFailures THEN BOOLEAN ELSE {FALSE}

\* a worker thread finishes the task of path p
RunTask(p) ==
    /\ pc \in {"partial", "full"} \union InterruptedPcs
    /\ p \in InFlight
    /\ \E io_error \in IoErrors :
          /\ result' = (p :> (IF pc \in {"partial", "interrupted_partial"}
                              THEN compute_partial_hash(fs[p], io_error)
                              ELSE compute_full_hash(fs[p], io_error))) @@ result
          /\ hash_failures' = hash_failures + (IF io_error THEN 1 ELSE 0)
    /\ hash_failed' = IF result'[p] = None THEN hash_failed \union {p} ELSE hash_failed
    /\ UNCHANGED <<args, entry, pc, exit_code, fsvars, ghostvars, scanvars, submitted,
                   collected, partial_submitted, full_submitted, hashvars, procvars>>

\* the FileInfo of a path, as the scan recorded it
InfoOf(p) == CHOOSE f \in Range(DictValuesFlat(size_groups)) : f.path = p

\* a partial pass whose loop ends when no finished task is left to collect
CollectPartialFinished(p) ==
    /\ pc = "partial"
    /\ p \in DOMAIN result /\ p \notin collected
    /\ collected' = collected \union {p}
    /\ partial_groups' = IF result[p] # None
                         THEN DictAppend(partial_groups, result[p], InfoOf(p))
                         ELSE partial_groups
    /\ pc' = IF collected' = DOMAIN result THEN "submit_full" ELSE pc
    /\ UNCHANGED <<args, entry, exit_code, fsvars, ghostvars, scanvars, submitted, result,
                   partial_submitted, full_submitted, hash_failures, hash_failed,
                   hash_groups, duplicates, hash_of, procvars>>

\* one iteration of "for future in as_completed(future_to_file)" of the partial pass
CollectPartial(p) ==
    /\ pc = "partial"
    /\ p \in DOMAIN result /\ p \notin collected
    /\ collected' = collected \union {p}
    /\ partial_groups' = IF result[p] # None
                         THEN DictAppend(partial_groups, result[p], InfoOf(p))
                         ELSE partial_groups
    /\ pc' = IF collected' = Range(submitted) THEN "submit_full" ELSE pc
    /\ UNCHANGED <<args, entry, exit_code, fsvars, ghostvars, scanvars, submitted, result,
                   partial_submitted, full_submitted, hash_failures, hash_failed,
                   hash_groups, duplicates, hash_of, procvars>>

\* a full pass that takes the files of every fingerprint group
SubmitFullEvery ==
    /\ pc = "submit_full"
    /\ LET candidate_files == DictValuesFlat(partial_groups)
       IN  /\ submitted' = [i \in 1..Len(candidate_files) |-> candidate_files[i].path]
           /\ full_submitted' = CountSubmitted(full_submitted, submitted')
           /\ pc' = IF candidate_files # <<>> THEN "full" ELSE "end_hash"
    /\ result' = EmptyFn
    /\ collected' = {}
    /\ partial_groups' = <<>>
    /\ UNCHANGED <<args, entry, exit_code, fsvars, ghostvars, scanvars, partial_submitted,
                   hash_failures, hash_failed, hash_groups, duplicates, hash_of, procvars>>

\* candidates = the fingerprint groups of more than one file; their files are
\* submitted for the full hash
SubmitFull ==
    /\ pc = "submit_full"
    /\ LET candidate_files == DictValuesFlat(DictFilterMulti(partial_groups))
       IN  /\ submitted' = [i \in 1..Len(candidate_files) |-> candidate_files[i].path]
           /\ full_submitted' = CountSubmitted(full_submitted, submitted')
           /\ pc' = IF candidate_files # <<>> THEN "full" ELSE "end_hash"
    /\ result' = EmptyFn
    /\ collected' = {}
    /\ partial_groups' = <<>>      \* not read again
    /\ UNCHANGED <<args, entry, exit_code, fsvars, ghostvars, scanvars, partial_submitted,
                   hash_failures, hash_failed, hash_groups, duplicates, hash_of, procvars>>

\* one iteration of "for future in as_completed(future_to_file)" of the full pass
CollectFull(p) ==
    /\ pc = "full"
    /\ p \in DOMAIN result /\ p \notin collected
    /\ collected' = collected \union {p}
    /\ IF result[p] # None
       THEN /\ hash_of' = (p :> result[p]) @@ hash_of
            /\ hash_groups' = DictAppend(hash_groups, result[p], InfoOf(p))
       ELSE UNCHANGED <<hash_of, hash_groups>>
    /\ pc' = IF collected' = Range(submitted) THEN "end_hash" ELSE pc
    /\ UNCHANGED <<args, entry, exit_code, fsvars, ghostvars, scanvars, submitted, result,
                   partial_submitted, full_submitted, hash_failures, hash_failed,
                   partial_groups, duplicates, procvars>>

\* the end of find_duplicates_by_hash (duplicates = the hash groups of more than
\* one file) and run() up to process_duplicates: return when there are no
\* duplicates, prepare_quarantine() in an applied quarantine run
EndHash ==
    /\ pc = "end_hash"
    /\ duplicates' = DictFilterMulti(hash_groups)
    /\ IF duplicates' = <<>>
       THEN /\ pc' = "done" /\ exit_code' = 0
            /\ UNCHANGED <<dirs, group_index>>
       ELSE /\ pc' = "choose" /\ exit_code' = exit_code
            /\ group_index' = 1
            /\ dirs' = IF args.mode = "quarantine" /\ args.apply
                       THEN MkdirParents(dirs, QuarantineDir) ELSE dirs
    /\ submitted' = <<>> /\ result' = EmptyFn /\ collected' = {}   \* the pool is shut down
    /\ hash_groups' = <<>>         \* not read again
    /\ UNCHANGED <<args, entry, fs, log_files, ghostvars, scanvars, partial_submitted,
                   full_submitted, hash_failures, hash_failed, partial_groups, hash_of,
                   folder_score,
                   actions, moves, returned, file_index, keeper, mutation_failures,
                   reports_written,
                   restore_script_written>>

\* ------------------------------------------------------- process_duplicates
\* the files of the duplicate group the outer loop is at
GroupFiles == duplicates[group_index][2]
GroupHash == duplicates[group_index][1]

\* "if file.folder_score is None: file.folder_score = compute_folder_score(...)"
\* for every file of the group, against the directory listings of this moment
FillScores(files, score, tree) ==
    [p \in DOMAIN score \union {files[i].path : i \in 1..Len(files)} |->
        IF p \in DOMAIN score THEN score[p]
        ELSE compute_folder_score(p, Listing(tree, Parent(p), listdir_fail))]

\* the head of the outer loop: keeper = DecisionEngine.choose_file_to_keep(files)
ChooseKeeper ==
    /\ pc = "choose"
    /\ folder_score' = FillScores(GroupFiles, folder_score, fs)
    /\ keeper' = choose_file_to_keep(GroupFiles, folder_score')
    /\ file_index' = 1
    /\ pc' = "process"
    /\ UNCHANGED <<args, entry, exit_code, fsvars, ghostvars, scanvars, taskvars, hashvars,
                   actions, moves, returned, group_index, mutation_failures, reports_written,
                   restore_script_written>>

\* an error message on a DuplicateAction
Error(msg) == [msg |-> msg]

\* DuplicateAction(...)
DuplicateAction(file_hash, kept, removed, reason, action_type, error) ==
    [hash |-> file_hash, size |-> removed.size,
     kept_path |-> kept.path, removed_path |-> removed.path, reason |-> reason,
     kept_ctime |-> kept.ctime, kept_mtime |-> kept.mtime,
     removed_ctime |-> removed.ctime, removed_mtime |-> removed.mtime,
     action |-> action_type, error |-> error]

\* whether one more os.remove / shutil.move may raise although the file is there
MutationErrors == IF mutation_failures < MaxMutationFailures THEN BOOLEAN ELSE {FALSE}

\* os.remove(path) succeeds
RemoveSucceeds(tree, path, os_error) == tree[path] # Absent /\ ~os_error

\* the files after a successful os.remove(path)
RemoveFile(tree, path) == [tree EXCEPT ![path] = Absent]

\* a move that takes a missing file for moved
MoveSucceedsUnchecked(tree, path, os_error) == ~os_error

\* QuarantineManager.move_to_quarantine(path) returns True
MoveSucceeds(tree, path, os_error) == tree[path] # Absent /\ ~os_error

\* a move that leaves the file at path as well
CopyFile(tree, path, dest) == [tree EXCEPT ![dest] = tree[path]]

\* the files after a successful shutil.move(path, dest): the file is at dest, in
\* the place of whatever file was there, and no longer at path
MoveFile(tree, path, dest) == [tree EXCEPT ![dest] = tree[path], ![path] = Absent]

\* a dispatcher that leaves a failed os.remove / shutil.move out of the record
DisposeSilently(a, tree, path, os_error) ==
    CASE a.mode = "delete" ->
            IF a.confirm
            THEN IF RemoveSucceeds(tree, path, os_error)
                 THEN <<"delete", None, "remove">>
                 ELSE <<"dry-run", None, "none">>
            ELSE <<"dry-run", Error("Confirm flag not set"), "none">>
      [] a.mode = "quarantine" ->
            IF MoveSucceeds(tree, path, os_error)
            THEN <<"move", None, "move">>
            ELSE <<"dry-run", None, "none">>
      [] OTHER -> <<"report-only", None, "none">>

\* a dispatcher that deletes in delete mode without asking for confirm
DisposeUnconfirmed(a, tree, path, os_error) ==
    CASE a.mode = "delete" ->
            IF RemoveSucceeds(tree, path, os_error)
            THEN <<"delete", None, "remove">>
            ELSE <<"dry-run", Error("os error"), "none">>
      [] a.mode = "quarantine" ->
            IF MoveSucceeds(tree, path, os_error)
            THEN <<"move", None, "move">>
            ELSE <<"dry-run", Error("Move failed"), "none">>
      [] OTHER -> <<"report-only", None, "none">>

\* a dispatcher that sets the disposition before it calls os.remove or
\* shutil.move
DisposeOptimistic(a, tree, path, os_error) ==
    CASE a.mode = "delete" ->
            IF a.confirm
            THEN IF RemoveSucceeds(tree, path, os_error)
                 THEN <<"delete", None, "remove">>
                 ELSE <<"delete", Error("os error"), "none">>
            ELSE <<"dry-run", Error("Confirm flag not set"), "none">>
      [] a.mode = "quarantine" ->
            IF MoveSucceeds(tree, path, os_error)
            THEN <<"move", None, "move">>
            ELSE <<"move", Error("Move failed"), "none">>
      [] OTHER -> <<"report-only", None, "none">>

\* the body of "if self.args.apply:" for one non-keeper file: <<action_type,
\* error, mutation>>, mutation being the filesystem call that succeeded
DisposeApplied(a, tree, path, os_error) ==
    CASE a.mode = "delete" ->
            IF a.confirm
            THEN IF RemoveSucceeds(tree, path, os_error)
                 THEN <<"delete", None, "remove">>
                 ELSE <<"dry-run", Error("os error"), "none">>
            ELSE <<"dry-run", Error("Confirm flag not set"), "none">>
      [] a.mode = "quarantine" ->
            IF MoveSucceeds(tree, path, os_error)
            THEN <<"move", None, "move">>
            ELSE <<"dry-run", Error("Move failed"), "none">>
      [] OTHER -> <<"report-only", None, "none">>

\* a dispatcher that does not look at apply
DisposeWhetherApplied(a, tree, path, os_error) == DisposeApplied(a, tree, path, os_error)

\* the disposition of one non-keeper file
Dispose(a, tree, path, os_error) ==
    IF a.apply THEN DisposeApplied(a, tree, path, os_error)
    ELSE <<"dry-run", None, "none">>

\* a reporter that keeps no record of a file whose disposition failed
add_action_unless_error(recorded, action) ==
    IF action.error # None THEN recorded ELSE Append(recorded, action)

\* Reporter.add_action
add_action(recorded, action) == Append(recorded, action)

\* the runs in which process_duplicates calls os.remove or shutil.move at all
CallsFilesystem(a) ==
    a.apply /\ (a.mode = "quarantine" \/ (a.mode = "delete" /\ a.confirm))

\* where the loops of process_duplicates stand after the file at file_index
Advance ==
    IF file_index < Len(GroupFiles)
    THEN /\ file_index' = file_index + 1
         /\ UNCHANGED <<group_index, keeper, pc>>
    ELSE /\ file_index' = 0
         /\ keeper' = None
         /\ group_index' = group_index + 1
         /\ pc' = IF group_index < Len(duplicates) THEN "choose" ELSE "finish"

\* one iteration of "for file_info in files": the keeper is passed over, any
\* other file gets its disposition and its DuplicateAction
ProcessFile ==
    /\ pc = "process"
    /\ LET file_info == GroupFiles[file_index]
           dest == get_quarantine_path(QuarantineDir, file_info.path)
       IN  IF file_info.path = keeper.path
           THEN UNCHANGED <<fs, actions, moves, returned, mutation_failures>>
           ELSE \E os_error \in (IF CallsFilesystem(args) THEN MutationErrors ELSE {FALSE}) :
                  LET d == Dispose(args, fs, file_info.path, os_error)
                  IN  /\ fs' = CASE d[3] = "remove" -> RemoveFile(fs, file_info.path)
                                 [] d[3] = "move" -> MoveFile(fs, file_info.path, dest)
                                 [] OTHER -> fs
                      /\ moves' = IF d[3] = "move"
                                  THEN Append(moves, <<file_info.path, dest>>) ELSE moves
                      /\ returned' = IF args.apply /\ args.mode = "quarantine"
                                     THEN (IF d[3] = "move" THEN "True" ELSE "False")
                                     ELSE returned
                      /\ actions' = add_action(actions,
                                       DuplicateAction(GroupHash, keeper, file_info,
                                          build_reason(keeper, file_info, folder_score),
                                          d[1], d[2]))
                      /\ mutation_failures' = mutation_failures + (IF os_error THEN 1 ELSE 0)
    /\ Advance
    /\ UNCHANGED <<args, entry, exit_code, dirs, log_files, ghostvars, scanvars, taskvars,
                   hashvars, folder_score, reports_written, restore_script_written>>

\* the rest of run(): write_reports, create_restore_script when files were
\* quarantined, the summary
FinishRun ==
    /\ pc = "finish"
    /\ reports_written' = TRUE
    /\ restore_script_written' = (args.mode = "quarantine" /\ args.apply /\ moves # <<>>)
    /\ pc' = "done"
    /\ exit_code' = 0
    /\ UNCHANGED <<args, entry, fsvars, ghostvars, scanvars, taskvars, hashvars,
                   folder_score, actions, moves, returned, group_index, file_index,
                   keeper, mutation_failures>>

\* the first n tasks of a submission loop
Prefix(tasks, n) == [i \in 1..n |-> tasks[i].path]

\* Ctrl-C while the main thread is in find_duplicates_by_hash: KeyboardInterrupt
\* is raised where the main thread is, in a submission loop (some of the
\* tasks are submitted) or in a collecting loop; nothing catches it inside
\* run(), so the with block is left through executor.__exit__
Interrupt ==
    /\ pc \in {"submit_partial", "partial", "submit_full", "full", "end_hash"}
    /\ CASE pc = "submit_partial" ->
              /\ \E n \in 0..Len(DictValuesFlat(size_groups)) :
                    submitted' = Prefix(DictValuesFlat(size_groups), n)
              /\ partial_submitted' = CountSubmitted(partial_submitted, submitted')
              /\ result' = EmptyFn /\ collected' = {}
              /\ UNCHANGED full_submitted
         [] pc = "submit_full" ->
              /\ \E n \in 0..Len(DictValuesFlat(DictFilterMulti(partial_groups))) :
                    submitted' = Prefix(DictValuesFlat(DictFilterMulti(partial_groups)), n)
              /\ full_submitted' = CountSubmitted(full_submitted, submitted')
              /\ result' = EmptyFn /\ collected' = {}
              /\ UNCHANGED partial_submitted
         [] OTHER ->
              UNCHANGED <<submitted, result, collected, partial_submitted, full_submitted>>
    /\ pc' = IF pc \in {"submit_partial", "partial"}
             THEN "interrupted_partial" ELSE "interrupted_full"
    /\ UNCHANGED <<args, entry, exit_code, fsvars, ghostvars, scanvars, hash_failures,
                   hash_failed, hashvars, procvars>>

\* executor.__exit__ returns when every submitted task has finished
\* (shutdown(wait=True) cancels nothing); KeyboardInterrupt then leaves run():
\* main catches it and calls sys.exit(1), another caller gets the exception
ExecutorExit ==
    /\ pc \in InterruptedPcs
    /\ Unfinished = <<>>
    /\ IF entry = "main"
       THEN pc' = "exit" /\ exit_code' = 1
       ELSE pc' = "raised" /\ exit_code' = exit_code
    /\ submitted' = <<>> /\ result' = EmptyFn /\ collected' = {}   \* the pool is shut down
    /\ UNCHANGED <<args, entry, fsvars, ghostvars, scanvars, partial_submitted,
                   full_submitted, hash_failures, hash_failed, hashvars, procvars>>

Next ==
    \/ Main
    \/ CallRun
    \/ Scan
    \/ SubmitPartial
    \/ \E p \in Paths : RunTask(p)
    \/ \E p \in Paths : CollectPartial(p)
    \/ SubmitFull
    \/ \E p \in Paths : CollectFull(p)
    \/ EndHash
    \/ Interrupt
    \/ ExecutorExit
    \/ ChooseKeeper
    \/ ProcessFile
    \/ FinishRun

Spec == Init /\ [][Next]_vars

\* ------------------------------------------------- the scan on its own
\* Scanner.scan under every filter: the runs that are about to scan
ScanContents(p) ==
    CASE p = F1 -> {CX}
      [] p = F2 -> {CX, CS}
      [] p = F3 -> {CX}
      [] p = F4 -> {CX, CS}
      [] p = F5 -> {CX, Absent}
      [] OTHER -> {Absent}

ScanTrees ==
    {Tree(c1, c2, c3, c4, c5) :
        c1 \in ScanContents(F1), c2 \in ScanContents(F2), c3 \in ScanContents(F3),
        c4 \in ScanContents(F4), c5 \in ScanContents(F5)}

ScanFilters ==
    [exclude : {SystemExcludes, SystemExcludes \o <<<<Drive, "tmp">>>>,
                SystemExcludes \o <<F1, QuarantineDir>>},
     exclude_glob : {<<>>, <<"tmp">>, <<"*.LOG", "b.txt">>},
     skip_ext : {<<>>, <<".log">>, <<".TXT">>},
     min_size : {0, SizeOf(CX)},
     max_size : {SizeOf(CS), SizeOf(CX)}]

\* the directories of the tree below the root
TreeDirs == UNION {DirsAbove(p) : p \in Paths}

\* the calls of one scan that can raise: stat() on a file, resolve() on a
\* file or a directory
FailureSites ==
    {<<"stat", p>> : p \in Paths} \union {<<"resolve", p>> : p \in Paths \union TreeDirs}

RECURSIVE SubsetsUpTo(_, _)
\* the subsets of S of at most k elements
SubsetsUpTo(S, k) ==
    IF k = 0 THEN {{}}
    ELSE LET smaller == SubsetsUpTo(S, k - 1)
         IN  smaller \union {T \union {x} : T \in smaller, x \in S}

\* the stat() and resolve() failures of one scan
ScanFailures == SubsetsUpTo(FailureSites, MaxStatFailures)

InitScan ==
    /\ \E flt \in ScanFilters : args = ArgsOf("report", FALSE, FALSE, 1, DefaultLogDir, flt)
    /\ entry = "run"
    /\ fs \in ScanTrees
    /\ dirs = DirsOf(fs) \union {DefaultLogDir}
    /\ \E f \in ScanFailures :
          /\ stat_fail = {x[2] : x \in {y \in f : y[1] = "stat"}}
          /\ listdir_fail = {}
          /\ resolve_fail = {x[2] : x \in {y \in f : y[1] = "resolve"}}
    /\ InitRest
    /\ pc = "scan"

NextScan == Scan

SpecScan == InitScan /\ [][NextScan]_vars

\* ------------------------------------- the scan of a tree with links
\* the trees with symbolic links: D:\Documents\b.txt is a file, a link to
\* D:\Documents\a.txt or a link to D:\tmp\c.LOG (which dangles when that file
\* is not there); D:\lnk is a link to the directory D:\w or is not there
LinkTrees ==
    {[p \in AllPaths \union {DirLink, Via} |->
         CASE p = F1 -> CX
           [] p = F2 -> c2
           [] p = F3 -> c3
           [] p = F4 -> c4
           [] p = DirLink -> dl
           [] p = Via -> (IF dl = Absent THEN Absent ELSE c3)
           [] OTHER -> Absent] :
       c2 \in {CX, SymlinkTo(F1), SymlinkTo(F4)}, c3 \in {CX, Absent},
       c4 \in {CX, CS, Absent}, dl \in {SymlinkTo(Parent(F3)), Absent}}

LinkFilters ==
    [exclude : {SystemExcludes, SystemExcludes \o <<F1>>, SystemExcludes \o <<Parent(F3)>>},
     exclude_glob : {<<>>},
     skip_ext : {<<>>, <<".log">>},
     min_size : {0, SizeOf(CX)},
     max_size : {SizeOf(CX)}]

InitScanLinks ==
    /\ \E flt \in LinkFilters : args = ArgsOf("report", FALSE, FALSE, 1, DefaultLogDir, flt)
    /\ entry = "run"
    /\ fs \in LinkTrees
    /\ dirs = {RootPath, DefaultLogDir}
    /\ stat_fail = {}
    /\ listdir_fail = {}
    /\ resolve_fail = {}
    /\ InitRest
    /\ pc = "scan"

SpecScanLinks == InitScanLinks /\ [][NextScan]_vars

\* ------------------------------------------ QuarantineManager on its own
\* the trees a QuarantineManager is used on: every file has its own content
QuarantineTrees ==
    {Tree(c1, c2, c3, c4, c5) :
        c1 \in {CX, Absent}, c2 \in {CY, Absent}, c3 \in {CZ, Absent},
        c4 \in {CS, Absent}, c5 \in {CT, Absent}}

\* a caller that has a QuarantineManager(quarantine_dir) and moves files with it
InitQuarantine ==
    /\ args = ArgsOf("quarantine", TRUE, FALSE, 1, DefaultLogDir, DefaultFilter)
    /\ entry = "run"
    /\ fs \in QuarantineTrees
    /\ dirs = DirsOf(fs) \union {DefaultLogDir}
    /\ stat_fail = {}
    /\ listdir_fail = {}
    /\ resolve_fail = {}
    /\ InitRest
    /\ pc = "quarantine"

\* QuarantineManager.move_to_quarantine(path); os_error: shutil.move raises
\* although the file is there
MoveToQuarantine(path) ==
    /\ pc = "quarantine"
    /\ \E os_error \in MutationErrors :
          LET dest == get_quarantine_path(QuarantineDir, path)
          IN  /\ IF MoveSucceeds(fs, path, os_error)
                 THEN /\ fs' = MoveFile(fs, path, dest)
                      /\ moves' = Append(moves, <<path, dest>>)
                      /\ returned' = "True"
                 ELSE /\ UNCHANGED <<fs, moves>>
                      /\ returned' = "False"
              /\ mutation_failures' = mutation_failures + (IF os_error THEN 1 ELSE 0)
    /\ dirs' = MkdirParents(dirs, QuarantineDir)      \* dest.parent.mkdir(parents=True)
    /\ UNCHANGED <<args, entry, pc, exit_code, log_files, ghostvars, scanvars, taskvars,
                   hashvars, folder_score, actions, group_index, file_index, keeper,
                   reports_written, restore_script_written>>

NextQuarantine == \E path \in Paths : MoveToQuarantine(path)

SpecQuarantine == InitQuarantine /\ [][NextQuarantine]_vars

\* --------------------------------------- get_quarantine_path on its own
\* the original paths: from the root of a drive, drive-relative, or relative,
\* one to three names deep
PathNames == {"w", "a.txt", "_DUPLICATE_QUARANTINE", "D_drivew"}
PathAnchors == {<<"D:">>, <<"E:">>, <<"D:.">>, <<>>}
Originals ==
    {a \o t : a \in PathAnchors,
              t \in UNION {[1..n -> PathNames] : n \in 1..3}}

InitQuarantinePath ==
    /\ args = ArgsOf("quarantine", TRUE, FALSE, 1, DefaultLogDir, DefaultFilter)
    /\ entry = "run"
    /\ fs = EmptyTree
    /\ dirs = {RootPath, DefaultLogDir}
    /\ stat_fail = {}
    /\ listdir_fail = {}
    /\ resolve_fail = {}
    /\ InitRest
    /\ pc = "quarantine_path"

\* dest = self.get_quarantine_path(filepath): the pair of move_to_quarantine,
\* for the first and for the second original of a QuarantineManager
QuarantinePathOf(original) ==
    /\ pc = "quarantine_path"
    /\ Len(moves) <= 1
    /\ moves' = Append(moves, <<original, get_quarantine_path(QuarantineDir, original)>>)
    /\ UNCHANGED <<args, entry, pc, exit_code, fsvars, ghostvars, scanvars, taskvars,
                   hashvars, folder_score, actions, returned, group_index, file_index,
                   keeper, mutation_failures, reports_written, restore_script_written>>

NextQuarantinePath == \E original \in Originals : QuarantinePathOf(original)

SpecQuarantinePath == InitQuarantinePath /\ [][NextQuarantinePath]_vars

\* --------------------------------------- choose_file_to_keep on its own
\* the FileInfos a path can have, the lists of one to three files of different
\* paths, and the folder scores already on them
ChoosePaths == {F1, F2, F3}
ChooseScores == {0, 10}
ChooseTimes == {1, 2}
ChooseInfos == [path : ChoosePaths, size : {SizeOf(CX)}, ctime : ChooseTimes, mtime : ChooseTimes]
ChooseLists ==
    {<<a>> : a \in ChooseInfos}
    \union {ab \in ChooseInfos \X ChooseInfos : ab[1].path # ab[2].path}
    \union {<<a, b, c>> : a \in {x \in ChooseInfos : x.path = F1},
                          b \in {x \in ChooseInfos : x.path = F2},
                          c \in {x \in ChooseInfos : x.path = F3}}
    \union {<<c, b, a>> : a \in {x \in ChooseInfos : x.path = F1},
                          b \in {x \in ChooseInfos : x.path = F2},
                          c \in {x \in ChooseInfos : x.path = F3}}

\* process_duplicates about to call choose_file_to_keep on one group of a dry
\* run
InitChoose ==
    /\ args = ArgsOf("report", FALSE, FALSE, 1, DefaultLogDir, DefaultFilter)
    /\ entry = "run"
    /\ fs = EmptyTree
    /\ dirs = {RootPath, DefaultLogDir}
    /\ stat_fail = {}
    /\ listdir_fail = {}
    /\ resolve_fail = {}
    /\ InitIdle
    /\ \E files \in ChooseLists :
          /\ duplicates = <<<<Sha256(CX), files>>>>
          /\ folder_score \in [{files[i].path : i \in 1..Len(files)} -> ChooseScores]
    /\ group_index = 1
    /\ pc = "choose"

\* choose_file_to_keep, then the loop over the files of the group
NextChoose == ChooseKeeper \/ ProcessFile

SpecChoose == InitChoose /\ [][NextChoose]_vars

\* --------------------------------------- compute_folder_score on its own
\* the files that may lie around D:\Documents\a.txt: two project indicators,
\* ten more files, and files in two project folders and in one other folder
Pkg == <<Drive, "Documents", "package.json">>
Setup == <<Drive, "Documents", "setup.py">>
InSrc == <<Drive, "Documents", "src", "m.py">>
InLib == <<Drive, "Documents", "lib", "m.py">>
InMisc == <<Drive, "Documents", "misc", "m.py">>
Fillers == {<<Drive, "Documents", n>> :
               n \in {"n0", "n1", "n2", "n3", "n4", "n5", "n6", "n7", "n8", "n9"}}
ScorePaths == {F1, F3, F4, Pkg, Setup, InSrc, InLib, InMisc} \union Fillers

\* the trees of the scoring runs: F1, F3 and F4 with any of the files above
\* (the ten more files all or none)
ScoreTrees ==
    {[p \in ScorePaths |->
         IF p \in {F1, F3, F4} \union opt \union (IF many THEN Fillers ELSE {})
         THEN CS ELSE Absent] :
       opt \in SUBSET {Pkg, Setup, InSrc, InLib, InMisc}, many \in BOOLEAN}

\* a caller about to score files of a tree; iterdir() may raise on one directory
InitScore ==
    /\ args = ArgsOf("report", FALSE, FALSE, 1, DefaultLogDir, DefaultFilter)
    /\ entry = "run"
    /\ fs \in ScoreTrees
    /\ dirs = {RootPath, DefaultLogDir}
    /\ stat_fail = {}
    /\ resolve_fail = {}
    /\ listdir_fail \in {{}, {Parent(F1)}, {Parent(F4)}}
    /\ InitRest
    /\ pc = "score"

\* file.folder_score = DecisionEngine.compute_folder_score(file.path)
ScoreFile(p) ==
    /\ pc = "score"
    /\ p \notin DOMAIN folder_score
    /\ folder_score' =
          (p :> compute_folder_score(p, Listing(fs, Parent(p), listdir_fail))) @@ folder_score
    /\ UNCHANGED <<args, entry, pc, exit_code, fsvars, ghostvars, scanvars, taskvars,
                   hashvars, actions, moves, returned, group_index, file_index, keeper,
                   mutation_failures, reports_written, restore_script_written>>

NextScore == \E p \in {F1, F3, F4} : ScoreFile(p)

SpecScore == InitScore /\ [][NextScore]_vars

\* ------------------------------------------------------------------ properties
\* process_duplicates has returned
Processed == pc = "finish" \/ (pc = "done" /\ reports_written)

\* the ActionRecords that name path as the removed file
RecordsOf(path) == {i \in 1..Len(actions) : actions[i].removed_path = path}

\* the number of non-keeper files of the duplicate groups
NonKeeperCount == SeqSum([k \in 1..Len(duplicates) |-> Len(duplicates[k][2]) - 1])

\* C1: in every mode and with every value of confirm, a run without apply gives
\* every ActionRecord the disposition "dry-run", removes and moves no file, and
\* does not create the quarantine directory.
C1_DryRunMutatesNothing ==
    ~args.apply =>
        /\ \A i \in 1..Len(actions) : actions[i].action = "dry-run"
        /\ fs = fs0
        /\ moves = <<>>
        /\ QuarantineDir \in dirs => QuarantineDir \in dirs0

\* a finished dry run in delete mode with confirm that recorded two files
C1_Witness ==
    /\ pc = "done" /\ ~args.apply /\ args.mode = "delete" /\ args.confirm
    /\ Len(actions) >= 2
    /\ QuarantineDir \notin dirs

\* C2: in delete mode with apply and without confirm, process_duplicates removes
\* and moves nothing, every ActionRecord carries the error "Confirm flag not set",
\* and when it has returned every non-keeper file of every duplicate group has
\* such a record.
C2_ConfirmGate ==
    DeleteGate(args) =>
        /\ fs = fs0
        /\ moves = <<>>
        /\ \A i \in 1..Len(actions) :
              /\ actions[i].error = Error("Confirm flag not set")
              /\ actions[i].action = "dry-run"
        /\ Processed =>
              \A k \in 1..Len(duplicates) :
                 \E j \in 1..Len(duplicates[k][2]) :
                    \A m \in 1..Len(duplicates[k][2]) :
                       m # j => RecordsOf(duplicates[k][2][m].path) # {}

\* an unconfirmed delete run that has processed a group of three files
C2_Witness ==
    /\ DeleteGate(args) /\ Processed
    /\ Len(actions) >= 2
    /\ \E k \in 1..Len(duplicates) : Len(duplicates[k][2]) >= 3

\* C3 (as the specification states it): after any run no ActionRecord names a
\* keeper as its removed file, the file of every keeper is still the file it
\* was, and of every duplicate group at least one member is still in its place.
C3_KeeperSurvives ==
    Processed =>
        /\ \A i, j \in 1..Len(actions) : actions[i].removed_path # actions[j].kept_path
        /\ \A i \in 1..Len(actions) : fs[actions[i].kept_path] = fs0[actions[i].kept_path]
        /\ \A k \in 1..Len(duplicates) :
              \E m \in 1..Len(duplicates[k][2]) :
                 fs[duplicates[k][2][m].path] = fs0[duplicates[k][2][m].path]

\* C4: when process_duplicates has returned there is exactly one ActionRecord
\* for every non-keeper member of every duplicate group and none for the
\* keeper, sum of (|g| - 1) records in all; before that no file has two records.
C4_OneRecordPerNonKeeper ==
    /\ \A p \in Paths : Cardinality(RecordsOf(p)) <= 1
    /\ Len(actions) <= NonKeeperCount
    /\ Processed =>
          /\ Len(actions) = NonKeeperCount
          /\ \A k \in 1..Len(duplicates) :
                \E j \in 1..Len(duplicates[k][2]) :
                   /\ RecordsOf(duplicates[k][2][j].path) = {}
                   /\ \A m \in 1..Len(duplicates[k][2]) :
                         m # j =>
                            \E i \in RecordsOf(duplicates[k][2][m].path) :
                               /\ actions[i].kept_path = duplicates[k][2][j].path
                               /\ actions[i].hash = duplicates[k][1]

\* a finished applied run over two groups in which one disposition failed
C4_Witness ==
    /\ Processed /\ args.apply
    /\ Len(duplicates) = 2
    /\ Len(actions) = 2
    /\ mutation_failures = 1

\* the ActionRecords that carry an error
Errored == {i \in 1..Len(actions) : actions[i].error # None}

\* C5: when os.remove or the move to quarantine of a non-keeper file fails, the
\* failure is on that file's ActionRecord (an error, disposition "dry-run"),
\* the file is still where it was, and the run goes on: when
\* process_duplicates has returned every non-keeper file has its record.
C5_FailureDoesNotAbort ==
    CallsFilesystem(args) =>
        /\ Cardinality(Errored) = mutation_failures
        /\ \A i \in Errored :
              /\ actions[i].action = "dry-run"
              /\ fs[actions[i].removed_path] # Absent
              /\ fs[actions[i].removed_path] = fs0[actions[i].removed_path]
              /\ \A n \in 1..Len(moves) : moves[n][1] # actions[i].removed_path
        /\ mutation_failures > 0 => pc \in {"choose", "process", "finish", "done"}
        /\ (mutation_failures > 0 /\ pc = "done") => reports_written
        /\ Processed =>
              \A k \in 1..Len(duplicates) :
                 Cardinality({m \in 1..Len(duplicates[k][2]) :
                                 RecordsOf(duplicates[k][2][m].path) # {}})
                    = Len(duplicates[k][2]) - 1

\* a finished run whose first disposition failed and whose later one, in the
\* same group, went through
C5_Witness ==
    /\ pc = "done" /\ CallsFilesystem(args)
    /\ Len(actions) >= 2
    /\ actions[1].error # None
    /\ actions[2].error = None /\ actions[2].action \in {"move", "delete"}
    /\ actions[2].hash = actions[1].hash
    /\ fs[actions[2].removed_path] = Absent

\* C6 (as the specification states it): when the root does not exist at the
\* start, or the mode is delete with apply and without confirm, main exits
\* with status 1 and nothing has been created, deleted or moved.
C6_PreflightFailsBeforeAnything ==
    (entry = "main" /\ pc # "start" /\ (RootPath \notin dirs0 \/ DeleteGate(args))) =>
        /\ pc = "exit" /\ exit_code = 1
        /\ fs = fs0
        /\ dirs = dirs0
        /\ log_files = 0

\* ---- the scan
\* the conditions of a path, taken one by one
UnderExcluded(a, path) == \E i \in 1..Len(a.exclude) : IsPrefix(a.exclude[i], path)
MatchesGlob(a, path) == \E i \in 1..Len(a.exclude_glob) : GlobMatch(path, a.exclude_glob[i])
ExtensionSkipped(a, path) ==
    \E i \in 1..Len(a.skip_ext) : Lower(Suffix(Name(path))) = Lower(a.skip_ext[i])
SizeAdmitted(a, size) == a.min_size <= size /\ size <= a.max_size

\* where the walk recorded path: <<bucket, position>> pairs of scan_groups
RecordedAt(path) ==
    {km \in (1..Len(scan_groups)) \X (1..Cardinality(Paths)) :
        /\ km[2] <= Len(scan_groups[km[1]][2])
        /\ scan_groups[km[1]][2][km[2]].path = path}

\* every recorded file is an existing file that meets the conditions, in the
\* bucket of its size
ScanSound ==
    \A k \in 1..Len(scan_groups) : \A m \in 1..Len(scan_groups[k][2]) :
       LET f == scan_groups[k][2][m]
       IN  /\ fs[f.path] # Absent
           /\ f.size = SizeOf(fs[f.path])
           /\ scan_groups[k][1] = f.size
           /\ SizeAdmitted(args, f.size)
           /\ ~UnderExcluded(args, f.path)
           /\ ~MatchesGlob(args, f.path)
           /\ ~ExtensionSkipped(args, f.path)

\* the file at path meets the conditions of C7 and its stat succeeds
MeetsConditions(path) ==
    /\ fs[path] # Absent
    /\ SizeAdmitted(args, SizeOf(fs[path]))
    /\ ~UnderExcluded(args, path)
    /\ ~MatchesGlob(args, path)
    /\ ~ExtensionSkipped(args, path)
    /\ path \notin stat_fail

\* the walk reaches path: no directory above it is pruned, and its own
\* resolve() succeeds
WalkReaches(path) ==
    /\ path \notin resolve_fail
    /\ \A d \in DirsAbove(path) :
          /\ d \notin resolve_fail
          /\ ~MatchesGlob(args, d)
          /\ ~ExtensionSkipped(args, d)

\* path is recorded once, in the bucket of its size
RecordedOnce(path) ==
    /\ Cardinality(RecordedAt(path)) = 1
    /\ \A km \in RecordedAt(path) : scan_groups[km[1]][1] = SizeOf(fs[path])

\* C7 (as the specification states it): scan records only files that meet the
\* size, exclusion, glob and extension conditions, and records every file
\* under the root that meets them and whose stat succeeds.
C7_ScanRecordsExactly ==
    pc # "scan" =>
        /\ ScanSound
        /\ \A p \in Paths : MeetsConditions(p) => RecordedOnce(p)

\* C7, amended: ... and records every such file that the walk reaches, that is
\* whose directories below the root are not rejected by should_skip_path and
\* whose resolve() succeeds.
C7_ScanRecordsReachable ==
    pc # "scan" =>
        /\ ScanSound
        /\ \A p \in Paths : (MeetsConditions(p) /\ WalkReaches(p)) => RecordedOnce(p)

\* a scan that recorded a file of exactly min_size and one of exactly max_size
\* and passed over c.LOG for the skipped extension ".log"
C7_Witness ==
    /\ pc # "scan"
    /\ fs[F4] # Absent /\ RecordedAt(F4) = {}
    /\ args.skip_ext = <<".log">> /\ args.exclude_glob = <<>>
    /\ F4 \notin stat_fail \union resolve_fail
    /\ DirsAbove(F4) \cap resolve_fail = {}
    /\ ~UnderExcluded(args, F4)
    /\ SizeAdmitted(args, SizeOf(fs[F4]))
    /\ \E p \in Paths : RecordedAt(p) # {} /\ SizeOf(fs[p]) = args.min_size
    /\ \E p \in Paths : RecordedAt(p) # {} /\ SizeOf(fs[p]) = args.max_size

\* ---- the hashing
\* the recorded files of the size a recorded path has
SameSizeRecorded(path) ==
    {f \in Range(DictValuesFlat(scan_groups)) :
        \E g \in Range(DictValuesFlat(scan_groups)) : g.path = path /\ g.size = f.size}

OneSize(files) == \A m, n \in 1..Len(files) : files[m].size = files[n].size

\* C9 (as the specification states it): every fingerprint group promoted to
\* full hashing, and every duplicate group find_duplicates_by_hash returns,
\* has at least two members, all of one size (and, returned groups, one hash).
C9_GroupsShareOneSize ==
    /\ pc = "submit_full" =>
          \A k \in 1..Len(DictFilterMulti(partial_groups)) :
             /\ Len(DictFilterMulti(partial_groups)[k][2]) >= 2
             /\ OneSize(DictFilterMulti(partial_groups)[k][2])
    /\ \A k \in 1..Len(duplicates) :
          /\ Len(duplicates[k][2]) >= 2
          /\ OneSize(duplicates[k][2])
          /\ \A m \in 1..Len(duplicates[k][2]) :
                hash_of[duplicates[k][2][m].path] = duplicates[k][1]

\* the paths of the duplicate groups
DuplicatePaths == {f.path : f \in Range(DictValuesFlat(duplicates))}

\* C10: a file whose partial or full hash computation returned None is in no
\* duplicate group and is neither the kept nor the removed path of any
\* ActionRecord; a hash group that such failures leave with one member is not
\* among the duplicate groups.
C10_FailedHashExcluded ==
    /\ hash_failed \cap DuplicatePaths = {}
    /\ \A i \in 1..Len(actions) :
          /\ actions[i].kept_path \notin hash_failed
          /\ actions[i].removed_path \notin hash_failed
    /\ \A k \in 1..Len(duplicates) : Len(duplicates[k][2]) >= 2

\* a finished run in which the full hash of one of two copies failed: the other
\* copy is in no group, while another group was processed
C10_Witness ==
    /\ pc = "done" /\ actions # <<>>
    /\ \E p \in hash_failed :
          /\ full_submitted[p] > 0
          /\ \E q \in Paths \ {p} :
                /\ fs0[q] = fs0[p]
                /\ full_submitted[q] > 0
                /\ q \notin DuplicatePaths
                /\ q \notin hash_failed

\* ---- the keeper
\* C11: the keeper choose_file_to_keep returns is a member of the group that is
\* minimal under (-folder score, min(ctime, mtime), length of path): no member
\* has a higher score; none of equal score is earlier; none of equal score and
\* time has a shorter path.
C11_KeeperIsMinimal ==
    pc = "process" =>
        /\ \E i \in 1..Len(GroupFiles) : GroupFiles[i] = keeper
        /\ \A i \in 1..Len(GroupFiles) :
              LET f == GroupFiles[i]
                  fs_ == folder_score[f.path]
                  ks == folder_score[keeper.path]
                  ft == Min(f.ctime, f.mtime)
                  kt == Min(keeper.ctime, keeper.mtime)
              IN  /\ fs_ <= ks
                  /\ fs_ = ks => kt <= ft
                  /\ (fs_ = ks /\ kt = ft) => StrLen(keeper.path) <= StrLen(f.path)

\* a group of three in which the keeper has the lowest score, is the latest of
\* the files of its score, and the shorter path decided between the earliest two
C11_Witness ==
    /\ pc = "process" /\ Len(GroupFiles) = 3
    /\ keeper.path = F3
    /\ folder_score[F1] = folder_score[F3] /\ folder_score[F2] < folder_score[F3]
    /\ Min(GroupFiles[1].ctime, GroupFiles[1].mtime) = Min(keeper.ctime, keeper.mtime)
    /\ Min(GroupFiles[2].ctime, GroupFiles[2].mtime) < Min(keeper.ctime, keeper.mtime)

\* the lists that hold the members of files in another order
Reorderings(files) ==
    {[i \in 1..Len(files) |-> files[pi[i]]] : pi \in Permutations(1..Len(files))}

\* C12 (as the specification states it): whatever the order in which the
\* members of a group are passed, choose_file_to_keep returns the same keeper.
C12_KeeperIndependentOfOrder ==
    pc = "process" =>
        \A other \in Reorderings(GroupFiles) :
           choose_file_to_keep(other, folder_score) = keeper

\* the members of a group in the order in which the scan walked them, which is
\* the order in which a run whose hashing tasks complete in submission order
\* holds them
InWalkOrder(files) ==
    LET paths == SelectSeqOf(WalkOrder, {files[i].path : i \in 1..Len(files)})
    IN  [i \in 1..Len(paths) |-> CHOOSE f \in Range(files) : f.path = paths[i]]

\* C13 (as the specification states it): over one unchanged tree every run
\* chooses the same keeper for a duplicate group, whatever the completion order
\* of its hashing tasks: the keeper of any run is the keeper of the run whose
\* tasks complete in submission order.
C13_KeeperIndependentOfCompletionOrder ==
    pc = "process" =>
        keeper = choose_file_to_keep(InWalkOrder(GroupFiles), folder_score)

\* ---- the dispositions
\* the file of ActionRecord i is gone from its path
Gone(i) == fs[actions[i].removed_path] = Absent

\* the file of ActionRecord i is where and what it was
Untouched(i) ==
    /\ fs[actions[i].removed_path] # Absent
    /\ fs[actions[i].removed_path] = fs0[actions[i].removed_path]

\* the file of ActionRecord i is in the quarantine, and the move is in the log
Relocated(i) ==
    /\ Gone(i)
    /\ fs[get_quarantine_path(QuarantineDir, actions[i].removed_path)]
          = fs0[actions[i].removed_path]
    /\ \E n \in 1..Len(moves) : moves[n][1] = actions[i].removed_path

C15_MoveLogFollowsMoves ==
    [][\/ /\ returned' = "True"
          /\ \E path \in Paths :
                /\ moves' = Append(moves, <<path, QuarantineDir \o Tail(path)>>)
                /\ fs[path] # Absent
                /\ fs'[path] = Absent
                /\ fs'[QuarantineDir \o Tail(path)] = fs[path]
       \/ /\ returned' = "False"
          /\ moves' = moves
          /\ fs' = fs]_vars

\* two moves that succeeded, in the order of the log, and a later one that failed
C15_Witness ==
    /\ pc = "quarantine"
    /\ returned = "False"
    /\ Len(moves) = 2
    /\ moves[1][1] = F4 /\ moves[2][1] = F1
    /\ fs[F4] = Absent /\ fs[F1] = Absent
    /\ fs[moves[1][2]] = fs0[F4] /\ fs[moves[2][2]] = fs0[F1]
    /\ mutation_failures = 1

RECURSIVE ReplayReverse(_, _)
\* the files after the move log is replayed from its last entry to its first,
\* each destination moved back to its original (an entry whose destination is
\* not there is passed over)
ReplayReverse(tree, log) ==
    IF log = <<>> THEN tree
    ELSE LET last == log[Len(log)]
             undone == IF tree[last[2]] # Absent
                       THEN MoveFile(tree, last[2], last[1]) ELSE tree
         IN  ReplayReverse(undone, SubSeq(log, 1, Len(log) - 1))

\* C16 (as the specification states it): after any moves, replaying the move
\* log in reverse puts every relocated file back at its original path with its
\* original content, and leaves no copy at a destination.
C16_ReverseReplayRestores ==
    pc = "quarantine" =>
        LET restored == ReplayReverse(fs, moves)
        IN  \A n \in 1..Len(moves) :
               /\ restored[moves[n][1]] = fs0[moves[n][1]]
               /\ (\A m \in 1..Len(moves) : moves[m][1] # moves[n][2]) =>
                     restored[moves[n][2]] = Absent

\* ---- the quarantine path
\* the names of a path below its drive
NamesOf(path) ==
    IF path # <<>> /\ Head(path) \in {"C:", "D:", "E:", "C:.", "D:.", "E:."}
    THEN Tail(path) ELSE path

\* dest is strictly inside the quarantine directory and is not the original
InsideQuarantine(original, dest) ==
    /\ IsPrefix(QuarantineDir, dest)
    /\ Len(dest) > Len(QuarantineDir)
    /\ dest # original

\* below the quarantine directory dest has the names of the original, in order
Mirrors(original, dest) ==
    SubSeq(dest, Len(QuarantineDir) + 1, Len(dest)) = NamesOf(original)

\* C17 (as the specification states it): for every original path the
\* destination is strictly inside the quarantine root, differs from the
\* original, and has every directory name and the file name of the original,
\* in order.
C17_QuarantinePathMirrors ==
    pc = "quarantine_path" =>
        \A n \in 1..Len(moves) :
           /\ InsideQuarantine(moves[n][1], moves[n][2])
           /\ Mirrors(moves[n][1], moves[n][2])

\* C17, amended: ... and has the names of the original in order when the
\* original starts at the root of its drive or names no drive; of a
\* drive-relative original (D:w\a.txt) the first name comes out prefixed
\* ("D_drivew") and only the names after it are kept.
C17_QuarantinePathMirrorsRooted ==
    pc = "quarantine_path" =>
        \A n \in 1..Len(moves) :
           LET original == moves[n][1]
               dest == moves[n][2]
               rooted == original[1] \notin {"C:.", "D:.", "E:."}
           IN  /\ InsideQuarantine(original, dest)
               /\ rooted => Mirrors(original, dest)
               /\ ~rooted =>
                     /\ Len(dest) = Len(QuarantineDir) + Len(original) - 1
                     /\ SubSeq(dest, Len(QuarantineDir) + 2, Len(dest))
                           = SubSeq(original, 3, Len(original))
                     /\ dest[Len(QuarantineDir) + 1] # original[2]

\* the destination of a file that is in the quarantine directory already
C17_Witness ==
    /\ pc = "quarantine_path"
    /\ moves = <<<<F5, QuarantineDir \o <<"_DUPLICATE_QUARANTINE", "w", "a.txt">>>>>>

\* ------------------------------------------------------------------- C18
\* the paths whose partial-fingerprint task was submitted
PartialTasks == {p \in Paths : partial_submitted[p] > 0}

\* the paths a step submits for the full hash
NewFullTasks == {p \in Paths : full_submitted'[p] > full_submitted[p]}

\* the paths of the files of a dict of lists of FileInfo
PathsIn(d) == {DictValuesFlat(d)[i].path : i \in 1..Len(DictValuesFlat(d))}

\* C18: the two-phase barrier of find_duplicates_by_hash. A step that submits a
\* full-hash task is taken only when every partial-fingerprint task has
\* finished and its result has been collected, and the files it submits are
\* files of the fingerprint grouping, which by then holds every file whose
\* fingerprint was computed.
C18_FullAfterPartialCollected ==
    [][NewFullTasks # {} =>
          /\ Range(submitted) = PartialTasks
          /\ PartialTasks \subseteq DOMAIN result
          /\ PartialTasks \subseteq collected
          /\ PathsIn(partial_groups) = {p \in PartialTasks : result[p] # None}
          /\ NewFullTasks \subseteq PathsIn(partial_groups)]_vars

\* the full pass runs on some files of a partial pass of three or more, one of
\* which was not promoted
C18_Witness ==
    /\ pc = "full"
    /\ Cardinality(PartialTasks) >= 3
    /\ \E p \in PartialTasks : full_submitted[p] > 0
    /\ \E p \in PartialTasks : full_submitted[p] = 0

\* ------------------------------------------------------------------- C19
\* the paths whose full-hash task was submitted
FullTasks == {p \in Paths : full_submitted[p] > 0}

\* the partial pass computed the fingerprint of p, and the same fingerprint for
\* another file
Collided(p) ==
    /\ p \in PartialTasks /\ p \in DOMAIN result /\ result[p] # None
    /\ \E q \in PartialTasks \ {p} : q \in DOMAIN result /\ result[q] = result[p]

\* C19: compute_full_hash is submitted only for a file whose partial
\* fingerprint was computed and equals the fingerprint of another file, and the
\* tasks of the full pass are those submissions only: a file alone in its
\* fingerprint group, or whose fingerprint failed, gets no full-hash task.
C19_FullHashOnlyForCollisions ==
    [][/\ \A p \in NewFullTasks : Collided(p)
       /\ pc' = "full" => Range(submitted') \subseteq {p \in Paths : full_submitted'[p] > 0}]_vars

\* the full pass runs on the files that collided while a file whose
\* fingerprint failed was not submitted to it
C19_Witness ==
    /\ pc = "full"
    /\ FullTasks # {}
    /\ \E p \in PartialTasks \ FullTasks : p \in hash_failed

\* ------------------------------------------------------------------- C20
\* the number of tasks on path p that the pool's threads are running
RunningOn(p) ==
    Cardinality({i \in 1..Min(args.workers, Len(Unfinished)) : Unfinished[i] = p})

\* no record has two tasks running, or was submitted twice to one pass
OneTaskPerRecord ==
    \A p \in Paths :
        /\ RunningOn(p) <= 1
        /\ partial_submitted[p] <= 1
        /\ full_submitted[p] <= 1

\* a step that writes a hash field writes the field of one record, which was
\* not written before; it is a step of the collecting loop, not of a worker;
\* no written field changes
OneWritePerRecord ==
    hash_of' # hash_of =>
        /\ \E p \in Paths \ DOMAIN hash_of :
              /\ DOMAIN hash_of' = DOMAIN hash_of \union {p}
              /\ collected' = collected \union {p} /\ p \notin collected
        /\ \A q \in DOMAIN hash_of : hash_of'[q] = hash_of[q]
        /\ result' = result

\* C20: throughout the hashing phase, for every interleaving of the worker
\* pool, a record has at most one hashing task in flight, is submitted at most
\* once to the partial pass and at most once to the full pass (no task of the
\* partial pass is unfinished when the full pass is submitted), and its hash
\* field is written at most once, by the collecting loop alone.
C20_OneTaskOneWriter ==
    [][/\ OneTaskPerRecord'
       /\ NewFullTasks # {} => Unfinished = <<>>
       /\ OneWritePerRecord]_vars

\* the pool runs two tasks of the full pass after the hash of another record
\* was written
C20_Witness ==
    /\ pc = "full"
    /\ Cardinality(InFlight) = 2
    /\ DOMAIN hash_of # {}

\* ------------------------------------------------------------------- C21
\* the run ended in failure: sys.exit(1), or the exception left run()
FailedEnd == (pc = "exit" /\ exit_code = 1) \/ pc = "raised"

\* how a step ends an interrupted run: every submitted task has finished, the
\* run fails, and there is no ActionRecord, no duplicate group, no move, and
\* every file is where it was
EndsClean ==
    /\ Unfinished = <<>>
    /\ FailedEnd'
    /\ actions' = <<>> /\ duplicates' = <<>> /\ moves' = <<>>
    /\ fs' = fs0

\* a step submits no task
NoSubmit == partial_submitted' = partial_submitted /\ full_submitted' = full_submitted

C21_InterruptStopsSubmitting ==
    [][(pc \in InterruptedPcs) =>
          (NoSubmit /\ (pc' \notin InterruptedPcs => EndsClean))]_vars

\* ------------------------------------------------------------------- C22
\* min(ctime, mtime) of the kept and of the removed file of an ActionRecord
KeptEarliest(a) == Min(a.kept_ctime, a.kept_mtime)
RemovedEarliest(a) == Min(a.removed_ctime, a.removed_mtime)

\* the reasons the statement lists for an ActionRecord, in its order
ListedReasons(a) ==
    (IF folder_score[a.kept_path] # folder_score[a.removed_path]
     THEN <<<<"better folder score", folder_score[a.kept_path],
              folder_score[a.removed_path]>>>>
     ELSE <<>>)
    \o (IF KeptEarliest(a) < RemovedEarliest(a) THEN <<"older file">> ELSE <<>>)
    \o (IF StrLen(a.kept_path) < StrLen(a.removed_path) THEN <<"shorter path">> ELSE <<>>)

\* score, earliest timestamp and path length of kept and removed file are equal
AllEqual(a) ==
    /\ folder_score[a.kept_path] = folder_score[a.removed_path]
    /\ KeptEarliest(a) = RemovedEarliest(a)
    /\ StrLen(a.kept_path) = StrLen(a.removed_path)

\* C22: for the keeper choose_file_to_keep chose and every removed file of its
\* group, the reason on the record lists "better folder score (X vs Y)" iff the
\* scores differ, "older file" iff the keeper's earliest timestamp precedes the
\* removed file's, "shorter path" iff the keeper's path is shorter, in this
\* order; it is "default choice" exactly when score, earliest timestamp and
\* path length are all equal.
C22_ReasonListsDifferences ==
    \A i \in 1..Len(actions) :
        /\ (actions[i].reason = <<"default choice">>) <=> AllEqual(actions[i])
        /\ ~AllEqual(actions[i]) => actions[i].reason = ListedReasons(actions[i])

\* a record whose reason lists all three differences
C22_Witness ==
    \E i \in 1..Len(actions) :
        /\ Len(actions[i].reason) = 3
        /\ actions[i].kept_path = keeper.path

\* ------------------------------------------------------------------- C23
\* what the listing of the parent of path p shows, or nothing when it failed
SiblingFiles(p) == {Lower(Name(q)) : q \in {r \in DOMAIN fs : fs[r] # Absent /\ Parent(r) = Parent(p)}}
SiblingDirs(p) ==
    {Lower(q[Len(p)]) : q \in {r \in DOMAIN fs : fs[r] # Absent /\ IsPrefix(Parent(p), r)
                                                  /\ Len(r) > Len(p)}}
Listed(p) == Parent(p) \notin listdir_fail

\* the terms of the score of p that do not depend on the project folders
OtherTerms(p) ==
    (IF Listed(p)
     THEN 50 * Cardinality({i \in PROJECT_INDICATORS : Lower(i) \in SiblingFiles(p)})
          + (IF Cardinality(SiblingFiles(p)) > 10 THEN 20 ELSE 0)
     ELSE 0)
    + 40 * Cardinality({k \in USER_CONTENT_KEYWORDS : KeywordInPath(k, Parent(p))})
    - 100 * Cardinality({k \in IGNORE_KEYWORDS : KeywordInPath(k, Parent(p))})
    - 2 * Len(p)

\* the project folders among the sibling directories of p
MatchingFolders(p) ==
    IF Listed(p) THEN {f \in PROJECT_FOLDERS : Lower(f) \in SiblingDirs(p)} ELSE {}

\* C23 as stated: the score is 50 per project indicator among the sibling
\* files, one bonus of 30 when some sibling directory is a project folder, 20
\* for more than 10 sibling files, 40 per user-content keyword and -100 per
\* junk keyword in the lowercased parent path, -2 per component of the path;
\* the three sibling terms are skipped when the listing fails.
C23_ScoreOneFolderBonus ==
    \A p \in DOMAIN folder_score :
        folder_score[p] = OtherTerms(p) + (IF MatchingFolders(p) # {} THEN 30 ELSE 0)

\* C23, amended: as above, but the bonus of 30 is added for each project
\* folder among the sibling directories.
C23_ScoreBonusPerFolder ==
    \A p \in DOMAIN folder_score :
        folder_score[p] = OtherTerms(p) + 30 * Cardinality(MatchingFolders(p))

\* a file was scored whose parent holds two project folders, a project
\* indicator and more than ten files, and another whose listing failed
C23_Witness ==
    /\ F1 \in DOMAIN folder_score /\ F4 \in DOMAIN folder_score
    /\ Cardinality(MatchingFolders(F1)) = 2
    /\ fs[Pkg] # Absent
    /\ Cardinality(SiblingFiles(F1)) > 10
    /\ ~Listed(F4)

\* ------------------------------------------------------------------- C24
\* the paths of the FileInfos of the walk
RecordedPaths == PathsIn(scan_groups)

\* C24: scan does not follow symbolic links: no FileInfo has a path below a
\* directory that is a symbolic link, and no FileInfo has a path that is a
\* symbolic link to a file.
C24_ScanFollowsNoLink ==
    \A p \in RecordedPaths :
        /\ \A d \in DirsAbove(p) : ~IsSymlink(fs, d)
        /\ ~IsSymlink(fs, p)

\* the first half of C24: no FileInfo has a path below a directory that is a
\* symbolic link
C24_ScanEntersNoLinkedDirectory ==
    \A p \in RecordedPaths : \A d \in DirsAbove(p) : ~IsSymlink(fs, d)

\* ------------------------------------------------------------------- C25
\* shutil.move has moved the file at path p, os.remove has deleted it
Moved(p) == \E n \in 1..Len(moves) : moves[n][1] = p
Deleted(p) == moves = <<>> /\ fs0[p] # Absent /\ fs[p] = Absent

\* the ActionRecords for path p with the given disposition and no error
CleanRecords(p, disposition) ==
    {i \in 1..Len(actions) : /\ actions[i].removed_path = p
                             /\ actions[i].action = disposition
                             /\ actions[i].error = None}

VolumeOf(path) ==
    CASE path # <<>> /\ Head(path) \in {"C:", "C:."} -> "C"
      [] path # <<>> /\ Head(path) \in {"D:", "D:."} -> "D"
      [] path # <<>> /\ Head(path) \in {"E:", "E:."} -> "E"
      [] OTHER -> ""

\* how an original path is written: from the root of a drive, drive-relative,
\* or without a drive
FormOf(path) ==
    IF HasDrive(path) THEN "rooted" ELSE IF DriveRelative(path) THEN "drive-relative"
    ELSE "no drive"

C26_RunLogDestinationsDistinct ==
    \A n, m \in 1..Len(moves) : n # m => moves[n][2] # moves[m][2]

====
